---- MODULE Spec2Model ----
(***************************************************************************)
(* A model of the notebooks of mlops-amazon-sagemaker: the background      *)
(* WorkerThread harness of the monitoring notebooks, the training          *)
(* pipelines' step graphs, the deployment notebook's helper cells and the  *)
(* preprocessing script's split.                                           *)
(***************************************************************************)
EXTENDS Integers, Sequences, FiniteSets, TLC

\* ------------------------------------------------------------------ bounds

\* Rows of test-samples-no-header.csv (180 in the workshop's data set).
MaxRows == 3

\* Records per ground-truth upload: the length of range(180) in
\* upload_ground_truth, scaled down.
GroundTruthRecords == 2

\* Sleeps between two uploads: the length of range(0, 60) in
\* generate_fake_ground_truth, scaled down.
SleepsPerUpload == 2

VARIABLES
    \* ---- the monitoring notebooks (main thread = the cells, run in order)
    nb,         \* which notebook runs: "data_quality" or "model_quality"
    nrows,      \* lines of test-samples-no-header.csv
    mpc,        \* the cell (or the step of a cell) the main thread is at
    alive,      \* per WorkerThread: "unstarted", "running", "ended"
    flag,       \* per WorkerThread: its __terminate_event
    raised,     \* per WorkerThread: run() ended by an exception
    tpc,        \* per WorkerThread: position inside run() / do_run
    row,        \* invoke_endpoint: index of the line `for row in f` is at
    i,          \* invoke_endpoint: the local counter i
    log,        \* invoke_endpoint: what the current pass did, in order
    sent,       \* invoke_endpoint: the last request sent to the endpoint
    ids,        \* invoke_endpoint: the InferenceIds sent in the current pass
    naps,       \* ground-truth thread: time.sleep(60) calls since its last upload
    k,          \* generate_fake_ground_truth: the `for _ in range(0, 60)` index
    upl,        \* per caller of upload_ground_truth: its loop state
    rng,        \* the module-level generator of `random`
    s3,         \* the last ground-truth object uploaded, per caller: its lines
    \* ---- one execution of a training pipeline
    pipeline,   \* which pipeline: "WorkshopPipeline" or "synthetic-housing-training-pipeline"
    steps,      \* the list passed as Pipeline(steps=...)
    status,     \* per step: "pending", "running", "succeeded", "failed"
    report,     \* the metric the evaluation step wrote to evaluation.json
    outcome,    \* what the condition step evaluated to: "none", "true", "false"
    \* ---- the deployment notebook (MLOps manual to repeatable workflow)
    dpc,        \* the cell, or the statement of a cell, the notebook is at
    runs,       \* how many times the notebook has been run from the top
    iam,        \* the account's IAM: does the role exist, which policies it has
    fn_exists,  \* the account's Lambda: does the function exist
    lambda_role,            \* the notebook variable lambda_role
    lambda_function_arn,    \* the notebook variable lambda_function_arn
    caught,     \* exceptions a handler caught: what was raised, what was printed
    error,      \* the exception that ended the run, shown to the user
    endpoint,   \* the endpoint's status at the service
    response_status,        \* the notebook variable response_status
    polls,      \* describe_endpoint calls of the wait loop
    sleeps,     \* time.sleep(120) calls of the wait loop
    predicted,  \* predictor.predict(...) has been called
    \* ---- one run of preprocessing.py
    spc,        \* the statement the script is at
    raw,        \* the rows read from bank-additional-full.csv
    df,         \* the frame process(df) returned: the rows, shuffled
    train,      \* the three frames np.split returned
    validation,
    test,
    written,    \* the files written so far: name -> rows
    \* ---- one call of process(df)
    fpc,        \* "call", "returned" or "raised"
    arg,        \* the frame object the caller passed
    ret,        \* the frame process returned
    \* ---- the capture wait cell of the monitoring notebooks
    wpc,        \* the statement the cell is at
    listings,   \* S3Downloader.list calls made so far
    waited,     \* time.sleep(1) calls made so far
    capture_files,  \* the notebook variable capture_files
    captured,   \* the capture files in the bucket
    \* ---- the cleanup cells of the monitoring notebooks
    cpc,        \* the statement the cells are at
    workers,    \* the worker threads of the notebook, in the order of the cell
    terminated, \* the worker threads terminate() has been called on
    schedules,  \* the account: monitor -> "Scheduled", "Stopped" or "Deleted"
    executing,  \* the account: monitors with an execution in progress
    model_monitors, \* the notebook variable model_monitors
    mi,         \* the index of `for monitor in model_monitors`
    calls,      \* the calls the cleanup cells made in this run, in order
    \* ---- the monitoring set-up cells of the monitoring notebooks
    qpc,        \* the statement the set-up cells are at
    baseline_jobs,          \* the account: the status of each baseline job
    latest_baselining_job,  \* the monitor object's latest_baselining_job (0: None)
    latest_baseline_job,    \* the notebook variable latest_..._baseline_job
    monitoring_schedule,    \* the account: the schedule created, with its constraints
    \* ---- the SageMaker Endpoint section of mlops-roadshow/3-deployment.ipynb
    apc,        \* the cell the section is at
    aruns,      \* how many times the section has been started
    model_package_arn,  \* the stored notebook variable model_package_arn
    registry,   \* the model registry: package -> approval status
    model_package,      \* random_forest_regressor_model.model_package_arn (0: no object)
    approved,   \* the packages update_model_package returned for
    clock,      \* the second time.strftime shows
    endpoint_name,      \* the notebook variable endpoint_name
    deployments,        \* the deploy() calls that returned: package, endpoint name, run
    predictor   \* the endpoint name the Predictor is attached to

nbvars == <<nb, nrows, mpc, alive, flag, raised, tpc, row, i, log, sent, ids, naps, k, upl,
            rng, s3>>

pipevars == <<pipeline, steps, status, report, outcome>>

depvars == <<dpc, runs, iam, fn_exists, lambda_role, lambda_function_arn, caught, error,
             endpoint, response_status, polls, sleeps, predicted>>

prepvars == <<spc, raw, df, train, validation, test, written>>

procvars == <<fpc, arg, ret>>

capvars == <<wpc, listings, waited, capture_files, captured>>

cleanvars == <<cpc, workers, terminated, schedules, executing, model_monitors, mi, calls>>

monvars == <<qpc, baseline_jobs, latest_baselining_job, latest_baseline_job,
             monitoring_schedule>>

appvars == <<apc, aruns, model_package_arn, registry, model_package, approved, clock,
             endpoint_name, deployments, predictor>>

vars == <<nbvars, pipevars, depvars, prepvars, procvars, capvars, cleanvars, monvars,
          appvars>>

\* What an action of one part of the model leaves alone.
OnlyNotebook == UNCHANGED <<pipevars, depvars, prepvars, procvars, capvars, cleanvars,
        monvars, appvars>>

OnlyPipeline == UNCHANGED <<nbvars, depvars, prepvars, procvars, capvars, cleanvars,
        monvars, appvars>>

OnlyDeployment == UNCHANGED <<nbvars, pipevars, prepvars, procvars, capvars, cleanvars,
        monvars, appvars>>

OnlyPreprocessing == UNCHANGED <<nbvars, pipevars, depvars, procvars, capvars, cleanvars,
        monvars, appvars>>

OnlyProcess == UNCHANGED <<nbvars, pipevars, depvars, prepvars, capvars, cleanvars,
        monvars, appvars>>

OnlyCapture == UNCHANGED <<nbvars, pipevars, depvars, prepvars, procvars, cleanvars,
        monvars, appvars>>

OnlyCleanup == UNCHANGED <<nbvars, pipevars, depvars, prepvars, procvars, capvars,
        monvars, appvars>>

OnlyApproval ==
    UNCHANGED <<nbvars, pipevars, depvars, prepvars, procvars, capvars, cleanvars, monvars>>

Threads == {"traffic", "ground_truth"}

Callers == {"main", "ground_truth"}

\* ----------------------------------------------------------- pure helpers

Digit(d) ==
    CASE d = 0 -> "0" [] d = 1 -> "1" [] d = 2 -> "2" [] d = 3 -> "3"
      [] d = 4 -> "4" [] d = 5 -> "5" [] d = 6 -> "6" [] d = 7 -> "7"
      [] d = 8 -> "8" [] OTHER -> "9"

\* Python's str() of a non-negative int: its decimal digits.
RECURSIVE str(_)
str(n) == IF n < 10 THEN Digit(n) ELSE str(n \div 10) \o Digit(n % 10)

\* The elements of a list.
Range(f) == {f[j] : j \in 1..Len(f)}

\* Variant: random.seed is not called, the generator goes on from where
\* it is.
seed_Unseeded(x) == rng

\* random.seed(inference_id): the generator's state is a function of the seed.
seed(x) == [seeded |-> x, draws |-> 0]

\* random.random(): a value in [0, 1) that is a function of the generator's
\* state, here in tenths; every draw advances the state.
random(g) == (g.seeded * 7 + g.draws * 3 + 1) % 10

advance(g) == [g EXCEPT !.draws = (g.draws + 1) % 3]

\* Variant: the eventIds count from 1.
ground_truth_record_OneBased(inference_id, rand) ==
    [groundTruthData |-> [data |-> IF rand < 7 THEN "1" ELSE "0", encoding |-> "CSV"],
     eventMetadata   |-> [eventId |-> str(inference_id + 1)],
     eventVersion    |-> "0"]

\* The record ground_truth_with_id returns, given the draw.
ground_truth_record(inference_id, rand) ==
    [groundTruthData |-> [data |-> IF rand < 7 THEN "1" ELSE "0", encoding |-> "CSV"],
     eventMetadata   |-> [eventId |-> str(inference_id)],
     eventVersion    |-> "0"]

\* json.dumps(r) of a ground-truth record: one line, the keys in the order
\* of the dict.
json_dumps(r) ==
    "{\"groundTruthData\": {\"data\": \"" \o r.groundTruthData.data
    \o "\", \"encoding\": \"" \o r.groundTruthData.encoding
    \o "\"}, \"eventMetadata\": {\"eventId\": \"" \o r.eventMetadata.eventId
    \o "\"}, \"eventVersion\": \"" \o r.eventVersion \o "\"}"

\* Variant: the InferenceId is made from the text "row-" and the counter.
InferenceId_Row(n) == "row-" \o str(n)

\* InferenceId=str(i)
InferenceId(n) == str(n)

\* Variant: i is set once, outside invoke_endpoint, and goes on counting.
PassStart_Global(prev) == prev

\* `i = 0` at the start of every call of invoke_endpoint.
PassStart(prev) == 0

\* ------------------------------------------------------------ the notebooks

Notebooks == {"data_quality", "model_quality"}

\* Variant: the data-quality notebook starts a ground-truth thread as well.
Cells_SecondThread(n) ==
    <<"setup", "start_traffic", "upload_ground_truth", "start_ground_truth",
      "monitoring", "terminate_traffic", "terminate_ground_truth", "done">>

\* Variant: the ground-truth thread is started before the main thread's own
\* upload_ground_truth cell.
Cells_UploadLate(n) ==
    IF n = "data_quality"
    THEN <<"setup", "start_traffic", "monitoring", "terminate_traffic", "done">>
    ELSE <<"setup", "start_traffic", "start_ground_truth", "upload_ground_truth",
           "monitoring", "terminate_traffic", "terminate_ground_truth", "done">>

\* The cells that touch the threads, in notebook order.
Cells(n) ==
    IF n = "data_quality"
    THEN <<"setup", "start_traffic", "monitoring", "terminate_traffic", "done">>
    ELSE <<"setup", "start_traffic", "upload_ground_truth", "start_ground_truth",
           "monitoring", "terminate_traffic", "terminate_ground_truth", "done">>

CellIndex(n, c) == CHOOSE j \in 1..Len(Cells(n)) : Cells(n)[j] = c

NextCell(n, c) == Cells(n)[CellIndex(n, c) + 1]

IdleUpload == [phase |-> "idle", j |-> 0, records |-> <<>>]

NbInit ==
    /\ nb \in Notebooks
    /\ nrows \in 0..MaxRows
    /\ mpc = "setup"
    /\ alive = [t \in Threads |-> "unstarted"]
    /\ flag = [t \in Threads |-> FALSE]
    /\ raised = [t \in Threads |-> FALSE]
    /\ tpc = [t \in Threads |-> "run"]
    /\ row = 0
    /\ i = 0
    /\ log = <<>>
    /\ sent = <<>>
    /\ ids = <<>>
    /\ naps = 0
    /\ k = 0
    /\ upl = [c \in Callers |-> IdleUpload]
    /\ rng = [seeded |-> 0, draws |-> 0]
    /\ s3 = [c \in Callers |-> <<>>]

\* ---- the main thread

\* A cell that neither starts nor stops a thread and calls nothing that the
\* threads share (setup).
PlainCell ==
    /\ mpc = "setup"
    /\ mpc' = NextCell(nb, mpc)
    /\ UNCHANGED <<ids, naps, nb, nrows, alive, flag, raised, tpc, row, i, log, sent, k, upl, rng, s3>>
    /\ OnlyNotebook

\* WorkerThread(do_run=...).start()
StartThread(cell, t) ==
    /\ mpc = cell
    /\ alive' = [alive EXCEPT ![t] = "running"]
    /\ mpc' = NextCell(nb, mpc)
    /\ UNCHANGED <<ids, naps, nb, nrows, flag, raised, tpc, row, i, log, sent, k, upl, rng, s3>>
    /\ OnlyNotebook

StartTraffic == StartThread("start_traffic", "traffic")

StartGroundTruth == StartThread("start_ground_truth", "ground_truth")

\* WorkerThread.terminate
terminate(cell, t) ==
    /\ mpc = cell
    /\ flag' = [flag EXCEPT ![t] = TRUE]
    /\ mpc' = NextCell(nb, mpc)
    /\ UNCHANGED <<ids, naps, nb, nrows, alive, raised, tpc, row, i, log, sent, k, upl, rng, s3>>
    /\ OnlyNotebook

TerminateTraffic == terminate("terminate_traffic", "traffic")

TerminateGroundTruth == terminate("terminate_ground_truth", "ground_truth")

\* ---- upload_ground_truth, run by the main thread's cell or by the
\* ground-truth thread; one step per call into `random` and one for the upload.

\* Entering upload_ground_truth: the list comprehension starts at i = 0.
UploadBegin(c) ==
    upl' = [upl EXCEPT ![c] = [phase |-> "seed", j |-> 0, records |-> <<>>]]

\* ground_truth_with_id: random.seed(inference_id)
UploadSeed(c) ==
    /\ upl[c].phase = "seed"
    /\ rng' = seed(upl[c].j)
    /\ upl' = [upl EXCEPT ![c].phase = "random"]

\* ground_truth_with_id: rand = random.random(), and the record returned;
\* then the next i of range(180), or the end of the comprehension.
UploadRandom(c) ==
    /\ upl[c].phase = "random"
    /\ rng' = advance(rng)
    /\ upl' = [upl EXCEPT
                 ![c].records = Append(@, ground_truth_record(upl[c].j, random(rng))),
                 ![c].j = @ + 1,
                 ![c].phase = IF upl[c].j + 1 < GroundTruthRecords THEN "seed" ELSE "put"]

\* fake_records = [json.dumps(r) for r in records], joined by "\n" (one
\* record per line: json.dumps writes no line break), and
\* S3Uploader.upload_string_as_file_body returns: s3 holds the lines.
UploadPut(c) ==
    /\ upl[c].phase = "put"
    /\ s3' = [s3 EXCEPT ![c] = [j \in 1..Len(upl[c].records) |-> json_dumps(upl[c].records[j])]]
    /\ upl' = [upl EXCEPT ![c] = IdleUpload]

\* The cell `upload_ground_truth(datetime.utcnow() - timedelta(hours=1))`.
MainUploadCell ==
    /\ mpc = "upload_ground_truth"
    /\ \/ /\ upl["main"].phase = "idle"
          /\ UploadBegin("main")
          /\ UNCHANGED <<mpc, rng, s3>>
       \/ /\ UploadSeed("main")
          /\ UNCHANGED <<mpc, s3>>
       \/ /\ UploadRandom("main")
          /\ UNCHANGED <<mpc, s3>>
       \/ /\ UploadPut("main")
          /\ mpc' = NextCell(nb, mpc)
          /\ UNCHANGED rng
       \/ /\ upl["main"].phase = "put"      \* the upload raises: the cell fails
          /\ mpc' = "error"
          /\ upl' = [upl EXCEPT !["main"] = IdleUpload]
          /\ UNCHANGED <<rng, s3>>
    /\ UNCHANGED <<ids, naps, nb, nrows, alive, flag, raised, tpc, row, i, log, sent, k>>
    /\ OnlyNotebook

\* ---- WorkerThread.run, common to both threads

\* Variant: `while True`, the event is never looked at.
RunContinues_NoCheck(t) == TRUE

\* `while not self.__terminate_event.is_set()`: the loop goes on.
RunContinues(t) == ~flag[t]

\* run() returns: the thread ends.
RunReturn(t) ==
    /\ alive[t] = "running"
    /\ tpc[t] = "run"
    /\ ~RunContinues(t)
    /\ alive' = [alive EXCEPT ![t] = "ended"]
    /\ UNCHANGED <<ids, naps, nb, nrows, mpc, flag, raised, tpc, row, i, log, sent, k, upl, rng, s3>>
    /\ OnlyNotebook

\* An exception leaves do_run and run(): nothing catches it, the thread ends.
Propagate(t) ==
    /\ alive' = [alive EXCEPT ![t] = "ended"]
    /\ raised' = [raised EXCEPT ![t] = TRUE]

\* ---- invoke_endpoint(terminate_event), the traffic thread's do_run

Event(op, r) == <<op, r>>

\* self.__do_run(...): open the file, i = 0, and the first `for row in f`.
InvokeBegin ==
    /\ alive["traffic"] = "running"
    /\ tpc["traffic"] = "run"
    /\ RunContinues("traffic")
    /\ row' = 0
    /\ i' = PassStart(i)
    /\ log' = <<>>
    /\ ids' = <<>>
    /\ tpc' = [tpc EXCEPT !["traffic"] = IF nrows > 0 THEN "call" ELSE "run"]
    /\ UNCHANGED <<naps, nb, nrows, mpc, alive, flag, raised, sent, k, upl, rng, s3>>
    /\ OnlyNotebook

\* sagemaker_runtime_client.invoke_endpoint(...) returns, then i += 1.
InvokeCall ==
    /\ alive["traffic"] = "running"
    /\ tpc["traffic"] = "call"
    /\ sent' = <<[Body |-> row, InferenceId |-> InferenceId(i)]>>
    /\ ids' = Append(ids, InferenceId(i))
    /\ log' = Append(log, Event("call", row))
    /\ i' = i + 1
    /\ tpc' = [tpc EXCEPT !["traffic"] = "read"]
    /\ UNCHANGED <<naps, nb, nrows, mpc, alive, flag, raised, row, k, upl, rng, s3>>
    /\ OnlyNotebook

\* sagemaker_runtime_client.invoke_endpoint(...) raises.
InvokeRaise ==
    /\ alive["traffic"] = "running"
    /\ tpc["traffic"] = "call"
    /\ Propagate("traffic")
    /\ UNCHANGED <<ids, naps, nb, nrows, mpc, flag, tpc, row, i, log, sent, k, upl, rng, s3>>
    /\ OnlyNotebook

\* response["Body"].read()
InvokeRead ==
    /\ alive["traffic"] = "running"
    /\ tpc["traffic"] = "read"
    /\ log' = Append(log, Event("read", row))
    /\ tpc' = [tpc EXCEPT !["traffic"] = "sleep"]
    /\ UNCHANGED <<ids, naps, nb, nrows, mpc, alive, flag, raised, row, i, sent, k, upl, rng, s3>>
    /\ OnlyNotebook

\* time.sleep(1)
InvokeSleep ==
    /\ alive["traffic"] = "running"
    /\ tpc["traffic"] = "sleep"
    /\ log' = Append(log, Event("sleep", row))
    /\ tpc' = [tpc EXCEPT !["traffic"] = "check"]
    /\ UNCHANGED <<ids, naps, nb, nrows, mpc, alive, flag, raised, row, i, sent, k, upl, rng, s3>>
    /\ OnlyNotebook

\* Variant: the `break` is missing, the pass goes on after the event is set.
AfterCheck_NoBreak(set, r) == IF r + 1 < nrows THEN "call" ELSE "run"

\* Where invoke_endpoint goes after `if terminate_event.is_set()`: break
\* (back in run), the next line of the file, or the end of the file.
AfterCheck(set, r) ==
    IF set THEN "run"
    ELSE IF r + 1 < nrows THEN "call" ELSE "run"

\* `if terminate_event.is_set(): break`, else the next `for row in f`.
InvokeCheck ==
    /\ alive["traffic"] = "running"
    /\ tpc["traffic"] = "check"
    /\ log' = Append(log, Event(IF flag["traffic"] THEN "break" ELSE "check", row))
    /\ tpc' = [tpc EXCEPT !["traffic"] = AfterCheck(flag["traffic"], row)]
    /\ row' = IF AfterCheck(flag["traffic"], row) = "call" THEN row + 1 ELSE row
    /\ UNCHANGED <<ids, naps, nb, nrows, mpc, alive, flag, raised, i, sent, k, upl, rng, s3>>
    /\ OnlyNotebook

TrafficStep ==
    \/ RunReturn("traffic")
    \/ InvokeBegin
    \/ InvokeCall
    \/ InvokeRaise
    \/ InvokeRead
    \/ InvokeSleep
    \/ InvokeCheck

\* ---- generate_fake_ground_truth(terminate_event), the ground-truth
\* thread's do_run

\* self.__do_run(...): upload_ground_truth(datetime.utcnow()) is entered.
GenerateBegin ==
    /\ alive["ground_truth"] = "running"
    /\ tpc["ground_truth"] = "run"
    /\ RunContinues("ground_truth")
    /\ UploadBegin("ground_truth")
    /\ tpc' = [tpc EXCEPT !["ground_truth"] = "upload"]
    /\ UNCHANGED <<ids, naps, nb, nrows, mpc, alive, flag, raised, row, i, log, sent, k, rng, s3>>
    /\ OnlyNotebook

\* The steps of upload_ground_truth inside the thread; after the upload,
\* `for _ in range(0, 60)` starts.
GenerateUpload ==
    /\ alive["ground_truth"] = "running"
    /\ tpc["ground_truth"] = "upload"
    /\ \/ /\ UploadSeed("ground_truth")
          /\ UNCHANGED <<alive, raised, tpc, naps, k, s3>>
       \/ /\ UploadRandom("ground_truth")
          /\ UNCHANGED <<alive, raised, tpc, naps, k, s3>>
       \/ /\ UploadPut("ground_truth")
          /\ naps' = 0
          /\ k' = 0
          /\ tpc' = [tpc EXCEPT !["ground_truth"] = "sleep"]
          /\ UNCHANGED <<alive, raised, rng>>
       \/ /\ upl["ground_truth"].phase = "put"     \* the upload raises
          /\ Propagate("ground_truth")
          /\ upl' = [upl EXCEPT !["ground_truth"] = IdleUpload]
          /\ UNCHANGED <<tpc, naps, k, rng, s3>>
    /\ UNCHANGED <<ids, nb, nrows, mpc, flag, row, i, log, sent>>
    /\ OnlyNotebook

\* time.sleep(60)
GenerateSleep ==
    /\ alive["ground_truth"] = "running"
    /\ tpc["ground_truth"] = "sleep"
    /\ tpc' = [tpc EXCEPT !["ground_truth"] = "check"]
    /\ naps' = naps + 1
    /\ UNCHANGED <<ids, nb, nrows, mpc, alive, flag, raised, row, i, log, sent, k, upl, rng, s3>>
    /\ OnlyNotebook

\* `if terminate_event.is_set(): break`, else the next `_` of range(0, 60).
GenerateCheck ==
    /\ alive["ground_truth"] = "running"
    /\ tpc["ground_truth"] = "check"
    /\ IF ~flag["ground_truth"] /\ k + 1 < SleepsPerUpload
       THEN /\ k' = k + 1
            /\ tpc' = [tpc EXCEPT !["ground_truth"] = "sleep"]
       ELSE /\ k' = 0
            /\ tpc' = [tpc EXCEPT !["ground_truth"] = "run"]
    /\ UNCHANGED <<ids, naps, nb, nrows, mpc, alive, flag, raised, row, i, log, sent, upl, rng, s3>>
    /\ OnlyNotebook

GroundTruthStep ==
    \/ RunReturn("ground_truth")
    \/ GenerateBegin
    \/ GenerateUpload
    \/ GenerateSleep
    \/ GenerateCheck

\* ---- the monitoring set-up cells (monitor object, baseline job, schedule)

\* Variant: wait() returns while the job is still in progress.
wait_returns_NoBlock(job_status) == job_status # "Failed"

\* baseline_job.wait(logs=False) returns once the processing job completed.
wait_returns(job_status) == job_status = "Completed"

\* What the monitoring cells leave alone.
MonitoringFrame ==
    /\ UNCHANGED <<ids, naps, nb, nrows, alive, flag, raised, tpc, row, i, log, sent, k,
                   upl, rng, s3>>
    /\ UNCHANGED <<pipevars, depvars, prepvars, procvars, capvars, cleanvars, appvars>>

\* DefaultModelMonitor(...) / ModelQualityMonitor(...): a monitor object with
\* no baselining job yet.
InitMonitor ==
    /\ mpc = "monitoring"
    /\ qpc = "init_monitor"
    /\ latest_baselining_job' = 0
    /\ qpc' = "suggest_baseline"
    /\ UNCHANGED <<mpc, baseline_jobs, latest_baseline_job, monitoring_schedule>>
    /\ MonitoringFrame

\* monitor.suggest_baseline(...) starts a processing job and makes it the
\* monitor's latest_baselining_job.
SuggestBaseline ==
    /\ mpc = "monitoring"
    /\ qpc = "suggest_baseline"
    /\ baseline_jobs' = Append(baseline_jobs, "InProgress")
    /\ latest_baselining_job' = Len(baseline_jobs) + 1
    /\ qpc' = "wait"
    /\ UNCHANGED <<mpc, latest_baseline_job, monitoring_schedule>>
    /\ MonitoringFrame

\* The processing job ends, completed or failed.
BaselineJobEnds ==
    /\ \E j \in DOMAIN baseline_jobs :
          /\ baseline_jobs[j] = "InProgress"
          /\ \E s \in {"Completed", "Failed"} :
                baseline_jobs' = [baseline_jobs EXCEPT ![j] = s]
    /\ UNCHANGED <<mpc, qpc, latest_baselining_job, latest_baseline_job,
                   monitoring_schedule>>
    /\ MonitoringFrame

\* baseline_job.wait(logs=False) returns.
WaitReturns ==
    /\ mpc = "monitoring"
    /\ qpc = "wait"
    /\ wait_returns(baseline_jobs[latest_baselining_job])
    /\ qpc' = "latest_job"
    /\ UNCHANGED <<mpc, baseline_jobs, latest_baselining_job, latest_baseline_job,
                   monitoring_schedule>>
    /\ MonitoringFrame

\* A call of the monitoring cells raises (suggest_baseline, wait on a failed
\* job or on a failing status call, create_monitoring_schedule): the cell
\* fails and the run stops.
MonitoringRaises ==
    /\ mpc = "monitoring"
    /\ qpc \in {"suggest_baseline", "wait", "create_monitoring_schedule"}
    /\ mpc' = "error"
    /\ UNCHANGED <<qpc, baseline_jobs, latest_baselining_job, latest_baseline_job,
                   monitoring_schedule>>
    /\ MonitoringFrame

\* latest_..._baseline_job = monitor.latest_baselining_job
LatestBaseliningJob ==
    /\ mpc = "monitoring"
    /\ qpc = "latest_job"
    /\ latest_baseline_job' = latest_baselining_job
    /\ qpc' = "create_monitoring_schedule"
    /\ UNCHANGED <<mpc, baseline_jobs, latest_baselining_job, monitoring_schedule>>
    /\ MonitoringFrame

\* monitor.create_monitoring_schedule(...,
\* constraints=latest_..._baseline_job.suggested_constraints(), ...): the
\* schedule holds the constraints of that job.
CreateMonitoringSchedule ==
    /\ mpc = "monitoring"
    /\ qpc = "create_monitoring_schedule"
    /\ monitoring_schedule' = <<[constraints |-> latest_baseline_job]>>
    /\ qpc' = "done"
    /\ mpc' = NextCell(nb, mpc)
    /\ UNCHANGED <<baseline_jobs, latest_baselining_job, latest_baseline_job>>
    /\ MonitoringFrame

MonitoringStep ==
    \/ InitMonitor
    \/ SuggestBaseline
    \/ WaitReturns
    \/ MonitoringRaises
    \/ LatestBaseliningJob
    \/ CreateMonitoringSchedule

MainStep ==
    \/ PlainCell
    \/ MonitoringStep
    \/ StartTraffic
    \/ StartGroundTruth
    \/ MainUploadCell
    \/ TerminateTraffic
    \/ TerminateGroundTruth

\* The notebook part when another part of the model runs.
NbIdle ==
    /\ nb = "none"
    /\ nrows = 0
    /\ mpc = "done"
    /\ alive = [t \in Threads |-> "unstarted"]
    /\ flag = [t \in Threads |-> FALSE]
    /\ raised = [t \in Threads |-> FALSE]
    /\ tpc = [t \in Threads |-> "run"]
    /\ row = 0
    /\ i = 0
    /\ log = <<>>
    /\ sent = <<>>
    /\ ids = <<>>
    /\ naps = 0
    /\ k = 0
    /\ upl = [c \in Callers |-> IdleUpload]
    /\ rng = [seeded |-> 0, draws |-> 0]
    /\ s3 = [c \in Callers |-> <<>>]

\* The pipeline part when another part of the model runs.
PipeIdle ==
    /\ pipeline = "none"
    /\ steps = <<>>
    /\ status = <<>>
    /\ report = <<>>
    /\ outcome = "none"

\* The deployment part when another part of the model runs.
DepIdle ==
    /\ dpc = "none"
    /\ runs = 0
    /\ iam = <<>>
    /\ fn_exists = FALSE
    /\ lambda_role = "unset"
    /\ lambda_function_arn = "unset"
    /\ caught = {}
    /\ error = "none"
    /\ endpoint = "none"
    /\ response_status = "None"
    /\ polls = 0
    /\ sleeps = 0
    /\ predicted = FALSE

\* The preprocessing part when another part of the model runs.
PrepIdle ==
    /\ spc = "none"
    /\ raw = <<>>
    /\ df = <<>>
    /\ train = <<>>
    /\ validation = <<>>
    /\ test = <<>>
    /\ written = <<>>

\* process(df) when another part of the model runs.
ProcIdle ==
    /\ fpc = "none"
    /\ arg = <<>>
    /\ ret = <<>>

\* The capture wait cell when another part of the model runs.
CapIdle ==
    /\ wpc = "none"
    /\ listings = 0
    /\ waited = 0
    /\ capture_files = <<>>
    /\ captured = {}

\* The cleanup cells when another part of the model runs.
CleanIdle ==
    /\ cpc = "none"
    /\ workers = <<>>
    /\ terminated = {}
    /\ schedules = <<>>
    /\ executing = {}
    /\ model_monitors = <<>>
    /\ mi = 0
    /\ calls = <<>>

\* The monitoring set-up cells before they run: no monitor object, no
\* baseline job, no schedule.
MonIdle ==
    /\ qpc = "init_monitor"
    /\ baseline_jobs = <<>>
    /\ latest_baselining_job = 0
    /\ latest_baseline_job = 0
    /\ monitoring_schedule = <<>>

\* The SageMaker Endpoint section when another part of the model runs.
ApprovalIdle ==
    /\ apc = "none"
    /\ aruns = 0
    /\ model_package_arn = 0
    /\ registry = <<>>
    /\ model_package = 0
    /\ approved = {}
    /\ clock = 0
    /\ endpoint_name = "unset"
    /\ deployments = <<>>
    /\ predictor = "unset"

\* The parts of the model added to the notebooks' threads, pipelines,
\* deployment cells and split, when they do not run.
RestIdle == ProcIdle /\ CapIdle /\ CleanIdle /\ MonIdle /\ ApprovalIdle

Init == NbInit /\ PipeIdle /\ DepIdle /\ PrepIdle /\ RestIdle

Next == MainStep \/ TrafficStep \/ GroundTruthStep \/ BaselineJobEnds

\* The notebooks: the cells run in order, the threads interleave freely.
Spec == Init /\ [][Next]_vars

\* The interpreter schedules every live thread, and every remote call and
\* every sleep comes back (by returning or by raising).
FairSpec == Spec /\ WF_vars(TrafficStep) /\ WF_vars(GroundTruthStep)

\* ------------------------------------------------- the training pipelines

\* The steps of a training pipeline, by role.  WorkshopPipeline names them
\* PreprocessData.. as step_process, step_train, step_eval, step_cond and
\* step_register; the synthetic-housing pipeline preprocess_dataset_step,
\* training_step, evaluation_step, condition_step and register_step.
TopSteps == {"process", "train", "eval", "cond"}

AllSteps == TopSteps \cup {"register"}

Pipelines == {"WorkshopPipeline", "synthetic-housing-training-pipeline"}

\* Variant: the evaluation step takes a fixed model URI instead of
\* step_train.properties.ModelArtifacts.S3ModelArtifacts.
Deps_EvalWithoutTrain(s) ==
    CASE s = "process"  -> {}
      [] s = "train"    -> {"process"}
      [] s = "eval"     -> {"process"}
      [] s = "cond"     -> {"eval"}
      [] s = "register" -> {"train", "cond"}

\* The steps whose properties a step's arguments refer to (its data
\* dependencies); a step of if_steps also depends on its condition step.
Deps(s) ==
    CASE s = "process"  -> {}
      [] s = "train"    -> {"process"}
      [] s = "eval"     -> {"train", "process"}
      [] s = "cond"     -> {"eval"}
      [] s = "register" -> {"train", "cond"}

\* The thresholds, as fractions: right=0.8 and right=80000000.0.
MseThreshold == 80000000

Threshold(p) ==
    IF p = "WorkshopPipeline" THEN [num |-> 8, den |-> 10]
    ELSE [num |-> MseThreshold, den |-> 1]

\* Rows of the test set the evaluation scores (accuracy = correct / rows).
MaxTestRows == 5

\* What the evaluation may report: an accuracy correct/rows, or an MSE
\* below, at or above the threshold.
Reports(p) ==
    IF p = "WorkshopPipeline"
    THEN {[num |-> c, den |-> n] : c \in 0..MaxTestRows, n \in 1..MaxTestRows}
    ELSE {[num |-> m, den |-> 1] : m \in {MseThreshold - 1, MseThreshold, MseThreshold + 1}}

Less(a, b) == a.num * b.den < b.num * a.den

\* The condition of the condition step: ConditionGreaterThanOrEqualTo(accuracy,
\* 0.8) in WorkshopPipeline, ConditionLessThanOrEqualTo(mse, 80000000.0) in
\* the synthetic-housing pipeline.
Condition(p, v) ==
    IF p = "WorkshopPipeline" THEN ~Less(v, Threshold(p))
    ELSE ~Less(Threshold(p), v)

\* if_steps and else_steps of the condition step.
if_steps == {"register"}

else_steps == {}

StepOrders(S) ==
    {q \in [1..Cardinality(S) -> S] : \A a \in S : \E j \in 1..Cardinality(S) : q[j] = a}

PipeInit ==
    /\ pipeline \in Pipelines
    /\ steps \in StepOrders(TopSteps)
    /\ status = [s \in AllSteps |-> "pending"]
    /\ report = <<>>
    /\ outcome = "none"

Failed == \E s \in AllSteps : status[s] = "failed"

\* The pipeline service starts a step once the steps it depends on have
\* succeeded, whatever its place in the list; a step of if_steps (else_steps)
\* once the condition has evaluated to true (false).
Ready(s) ==
    /\ status[s] = "pending"
    /\ ~Failed
    /\ \A d \in Deps(s) : status[d] = "succeeded"
    /\ \/ \E j \in 1..Len(steps) : steps[j] = s
       \/ s \in if_steps /\ outcome = "true"
       \/ s \in else_steps /\ outcome = "false"

StartStep(s) ==
    /\ Ready(s)
    /\ status' = [status EXCEPT ![s] = "running"]
    /\ UNCHANGED <<pipeline, steps, report, outcome>>
    /\ OnlyPipeline

\* A processing, training or registration job ends well; the evaluation
\* writes evaluation.json.
CompleteStep(s) ==
    /\ s # "cond"
    /\ status[s] = "running"
    /\ status' = [status EXCEPT ![s] = "succeeded"]
    /\ IF s = "eval" THEN report' \in Reports(pipeline) ELSE UNCHANGED report
    /\ UNCHANGED <<pipeline, steps, outcome>>
    /\ OnlyPipeline

\* A job fails: the execution fails and starts nothing more.
FailStep(s) ==
    /\ s # "cond"
    /\ status[s] = "running"
    /\ status' = [status EXCEPT ![s] = "failed"]
    /\ UNCHANGED <<pipeline, steps, report, outcome>>
    /\ OnlyPipeline

\* The condition step reads the metric with JsonGet and compares it.
EvaluateCondition ==
    /\ status["cond"] = "running"
    /\ outcome' = IF Condition(pipeline, report) THEN "true" ELSE "false"
    /\ status' = [status EXCEPT !["cond"] = "succeeded"]
    /\ UNCHANGED <<pipeline, steps, report>>
    /\ OnlyPipeline

PipeNext ==
    \/ \E s \in AllSteps : StartStep(s)
    \/ \E s \in AllSteps : CompleteStep(s)
    \/ \E s \in AllSteps : FailStep(s)
    \/ EvaluateCondition

\* One execution of a training pipeline, for every order of the steps list.
PipeSpecInit == NbIdle /\ PipeInit /\ DepIdle /\ PrepIdle /\ RestIdle

PipeSpec == PipeSpecInit /\ [][PipeNext]_vars

\* -------------------------------------------------- the deployment notebook

\* How many times the notebook is run from the top (a run that failed is
\* run again by the user).
MaxRuns == 2

\* describe_endpoint calls one wait loop may make in the model.
MaxPolls == 3

Policies == {"AWSLambdaBasicExecutionRole", "AmazonSageMakerFullAccess"}

DepInit ==
    /\ dpc = "create_role"
    /\ runs = 1
    /\ iam \in {[role |-> FALSE, policies |-> {}], [role |-> TRUE, policies |-> Policies]}
    /\ fn_exists \in BOOLEAN
    /\ lambda_role = "unset"
    /\ lambda_function_arn = "unset"
    /\ caught = {}
    /\ error = "none"
    /\ endpoint = "none"
    /\ response_status = "None"
    /\ polls = 0
    /\ sleeps = 0
    /\ predicted = FALSE

\* An exception leaves the cell: the run stops and the user sees it.
Surface(call) ==
    /\ dpc' = "error"
    /\ error' = call

\* An `except` clause took the exception and the cell goes on.
Caught(call, cause, reported) ==
    caught' = caught \cup {[call |-> call, cause |-> cause, reported |-> reported]}

\* ---- create_lambda_iam_role(role_name)

\* iam.create_role creates the role.
CreateRole ==
    /\ dpc = "create_role"
    /\ ~iam.role
    /\ iam' = [iam EXCEPT !.role = TRUE]
    /\ dpc' = "attach_basic"
    /\ UNCHANGED <<runs, fn_exists, lambda_role, lambda_function_arn, caught, error,
                   endpoint, response_status, polls, sleeps, predicted>>
    /\ OnlyDeployment

\* Variant: the handler attaches the policies before it returns the ARN.
EntityAlreadyExistsHandler_Attaches == "attach_basic"

\* `except iam.exceptions.EntityAlreadyExistsException:` the first call of
\* the handler is iam.get_role.
EntityAlreadyExistsHandler == "get_role"

\* iam.create_role raises EntityAlreadyExistsException: the handler prints
\* 'Using ARN from existing role' and goes on to iam.get_role.
CreateRoleExists ==
    /\ dpc = "create_role"
    /\ iam.role
    /\ Caught("create_role", "already_exists", "already_exists")
    /\ dpc' = EntityAlreadyExistsHandler
    /\ UNCHANGED <<runs, iam, fn_exists, lambda_role, lambda_function_arn, error,
                   endpoint, response_status, polls, sleeps, predicted>>
    /\ OnlyDeployment

\* A call of the helper raises anything else: no handler, it leaves the cell.
HelperRaises ==
    /\ dpc \in {"create_role", "attach_basic", "attach_full", "get_role"}
    /\ Surface(dpc)
    /\ UNCHANGED <<runs, iam, fn_exists, lambda_role, lambda_function_arn, caught,
                   endpoint, response_status, polls, sleeps, predicted>>
    /\ OnlyDeployment

\* iam.attach_role_policy, first AWSLambdaBasicExecutionRole, then
\* AmazonSageMakerFullAccess; after the second, `return role_arn`.
AttachRolePolicy ==
    /\ dpc \in {"attach_basic", "attach_full"}
    /\ iam' = [iam EXCEPT !.policies = @ \cup
                 {IF dpc = "attach_basic" THEN "AWSLambdaBasicExecutionRole"
                                          ELSE "AmazonSageMakerFullAccess"}]
    /\ dpc' = IF dpc = "attach_basic" THEN "attach_full" ELSE "lambda_create"
    /\ lambda_role' = IF dpc = "attach_basic" THEN lambda_role ELSE "arn"
    /\ UNCHANGED <<runs, fn_exists, lambda_function_arn, caught, error,
                   endpoint, response_status, polls, sleeps, predicted>>
    /\ OnlyDeployment

\* iam.get_role, and `return response['Role']['Arn']`.
GetRole ==
    /\ dpc = "get_role"
    /\ lambda_role' = "arn"
    /\ dpc' = "lambda_create"
    /\ UNCHANGED <<runs, iam, fn_exists, lambda_function_arn, caught, error,
                   endpoint, response_status, polls, sleeps, predicted>>
    /\ OnlyDeployment

\* ---- the cell of lambda_function.create()

\* `except: print('Lambda function already exists!')`, whatever was raised.
LambdaCreateHandler(cause) ==
    /\ Caught("lambda_function.create", cause, "already_exists")
    /\ dpc' = "start_pipeline"
    /\ UNCHANGED error

\* lambda_function.create() returns the new function.
LambdaCreate ==
    /\ dpc = "lambda_create"
    /\ ~fn_exists
    /\ fn_exists' = TRUE
    /\ lambda_function_arn' = "arn"
    /\ dpc' = "start_pipeline"
    /\ UNCHANGED <<runs, iam, lambda_role, caught, error,
                   endpoint, response_status, polls, sleeps, predicted>>
    /\ OnlyDeployment

\* lambda_function.create() raises: the function exists already, or any
\* other failure of the call (the role cannot be assumed, access is denied,
\* the request is throttled).
LambdaCreateRaises ==
    /\ dpc = "lambda_create"
    /\ \E cause \in {"already_exists", "other"} :
          /\ cause = "already_exists" => fn_exists
          /\ LambdaCreateHandler(cause)
    /\ UNCHANGED <<runs, iam, fn_exists, lambda_role, lambda_function_arn,
                   endpoint, response_status, polls, sleeps, predicted>>
    /\ OnlyDeployment

\* ---- the deployment pipeline and the endpoint wait loop

\* deployment_pipeline.upsert and .start: the Lambda step deploys the
\* endpoint when the function exists.
StartPipeline ==
    /\ dpc = "start_pipeline"
    /\ endpoint' = IF fn_exists /\ endpoint = "none" THEN "Creating" ELSE endpoint
    /\ dpc' = "wait_cell"
    /\ UNCHANGED <<runs, iam, fn_exists, lambda_role, lambda_function_arn, caught, error,
                   response_status, polls, sleeps, predicted>>
    /\ OnlyDeployment

\* response_status = 'None'
WaitBegin ==
    /\ dpc = "wait_cell"
    /\ response_status' = "None"
    /\ dpc' = "wait"
    /\ UNCHANGED <<runs, iam, fn_exists, lambda_role, lambda_function_arn, caught, error,
                   endpoint, polls, sleeps, predicted>>
    /\ OnlyDeployment

\* The service brings the endpoint up, or fails to.
EndpointProgress ==
    /\ dpc \notin {"none", "error", "done"}
    /\ endpoint = "Creating"
    /\ endpoint' \in {"InService", "Failed"}
    /\ UNCHANGED <<dpc, runs, iam, fn_exists, lambda_role, lambda_function_arn, caught,
                   error, response_status, polls, sleeps, predicted>>
    /\ OnlyDeployment

\* deployed_model_name = 'my-xgboost-model'
deployed_model_name == "my-xgboost-model"

\* EndpointName=deployed_model_name+'-endpoint' of describe_endpoint.
DescribedEndpoint == deployed_model_name \o "-endpoint"

\* endpoint_name=deployed_model_name+'-endpoint' of the Predictor.
PredictorEndpoint == deployed_model_name \o "-endpoint"

\* Variant: the loop sleeps before every describe_endpoint call.
SleepsFirst_Always(st) == TRUE

\* `if response_status != 'None'`: the print and time.sleep(120).
SleepsFirst(st) == st # "None"

\* `while response_status != 'InService'`: the loop goes on; `if
\* response_status != 'None'`: time.sleep(120).
WaitLoop ==
    /\ dpc = "wait"
    /\ response_status # "InService"
    /\ polls < MaxPolls
    /\ sleeps' = IF SleepsFirst(response_status) THEN sleeps + 1 ELSE sleeps
    /\ dpc' = "describe"
    /\ UNCHANGED <<runs, iam, fn_exists, lambda_role, lambda_function_arn, caught, error,
                   endpoint, response_status, polls, predicted>>
    /\ OnlyDeployment

\* sagemaker_client.describe_endpoint, and response_status = response['EndpointStatus'];
\* the call raises when there is no such endpoint.
DescribeEndpoint ==
    /\ dpc = "describe"
    /\ polls' = polls + 1
    /\ IF endpoint = "none"
       THEN Surface("describe_endpoint") /\ UNCHANGED response_status
       ELSE response_status' = endpoint /\ dpc' = "wait" /\ UNCHANGED error
    /\ UNCHANGED <<runs, iam, fn_exists, lambda_role, lambda_function_arn, caught,
                   endpoint, sleeps, predicted>>
    /\ OnlyDeployment

\* The loop is left; Predictor(...) and predictor.predict(...).
Predict ==
    /\ dpc = "wait"
    /\ response_status = "InService"
    /\ predicted' = TRUE
    /\ dpc' = "done"
    /\ UNCHANGED <<runs, iam, fn_exists, lambda_role, lambda_function_arn, caught, error,
                   endpoint, response_status, polls, sleeps>>
    /\ OnlyDeployment

\* The user runs the notebook again from the top: the kernel's variables
\* start over, the account keeps its state.
RunAgain ==
    /\ dpc \in {"error", "done"}
    /\ runs < MaxRuns
    /\ runs' = runs + 1
    /\ dpc' = "create_role"
    /\ lambda_role' = "unset"
    /\ lambda_function_arn' = "unset"
    /\ caught' = {}
    /\ error' = "none"
    /\ response_status' = "None"
    /\ polls' = 0
    /\ sleeps' = 0
    /\ predicted' = FALSE
    /\ UNCHANGED <<iam, fn_exists, endpoint>>
    /\ OnlyDeployment

DepNext ==
    \/ CreateRole
    \/ CreateRoleExists
    \/ HelperRaises
    \/ AttachRolePolicy
    \/ GetRole
    \/ LambdaCreate
    \/ LambdaCreateRaises
    \/ StartPipeline
    \/ WaitBegin
    \/ EndpointProgress
    \/ WaitLoop
    \/ DescribeEndpoint
    \/ Predict
    \/ RunAgain

DepSpecInit == NbIdle /\ PipeIdle /\ DepInit /\ PrepIdle /\ RestIdle

\* The deployment notebook, its cells run in order, against an account that
\* may or may not hold the role and the function already.
DepSpec == DepSpecInit /\ [][DepNext]_vars

\* ------------------------------------------------------- preprocessing.py

\* Rows of bank-additional-full.csv.
MaxFrameRows == 5

\* The n for which the double product .7 * n falls just below the integer
\* 7n/10, so that int() gives one less (n < 330; none for .85 * n there).
RoundsBelow07 == {90, 170, 180}

\* int(.7 * n), in double arithmetic.
Int07(n) == IF n \in RoundsBelow07 THEN (7 * n) \div 10 - 1 ELSE (7 * n) \div 10

\* int(.85 * n), in double arithmetic.
Int085(n) == (85 * n) \div 100

\* Variant: the sizes of the parts are given where numpy takes the places
\* to cut at: [int(.7 * n), int(.15 * n)].
SplitPoints_Sizes(n) == <<Int07(n), (15 * n) \div 100>>

\* [int(.7*len(df)), int(.85*len(df))]
SplitPoints(n) == <<Int07(n), Int085(n)>>

Min(a, b) == IF a < b THEN a ELSE b

\* ary[lo:hi] of Python: the rows at 0-based places lo..hi-1, none when
\* hi <= lo.
Slice(ary, lo, hi) == SubSeq(ary, Min(lo, Len(ary)) + 1, Min(hi, Len(ary)))

\* np.split(ary, [a, b]): ary[0:a], ary[a:b], ary[b:].
np_split(ary, points) ==
    <<Slice(ary, 0, points[1]), Slice(ary, points[1], points[2]),
      Slice(ary, points[2], Len(ary))>>

\* The orders df.sample(frac=1) may give the rows.
Shuffles(rows) ==
    {[j \in 1..Len(rows) |-> rows[q[j]]] :
        q \in {f \in [1..Len(rows) -> 1..Len(rows)] :
                  \A a \in 1..Len(rows) : \E j \in 1..Len(rows) : f[j] = a}}

PrepInit ==
    /\ spc = "process"
    /\ raw \in {[j \in 1..n |-> j] : n \in 0..MaxFrameRows}
    /\ df = <<>>
    /\ train = <<>>
    /\ validation = <<>>
    /\ test = <<>>
    /\ written = <<>>

\* df = process(df): the rows come back in a random order.
process ==
    /\ spc = "process"
    /\ df' \in Shuffles(raw)
    /\ spc' = "split"
    /\ UNCHANGED <<raw, train, validation, test, written>>
    /\ OnlyPreprocessing

\* The script's frame does not hold both labels: df['y_yes'] or the drop of
\* y_no raises KeyError and the script ends.
process_KeyError ==
    /\ spc = "process"
    /\ spc' = "error"
    /\ UNCHANGED <<raw, df, train, validation, test, written>>
    /\ OnlyPreprocessing

\* train, validation, test = np.split(df, [int(.7*len(df)), int(.85*len(df))])
split ==
    /\ spc = "split"
    /\ train' = np_split(df, SplitPoints(Len(df)))[1]
    /\ validation' = np_split(df, SplitPoints(Len(df)))[2]
    /\ test' = np_split(df, SplitPoints(Len(df)))[3]
    /\ spc' = "write_train"
    /\ UNCHANGED <<raw, df, written>>
    /\ OnlyPreprocessing

\* file.to_csv(..., header=False, index=False)
to_csv(at, name, frame, next) ==
    /\ spc = at
    /\ written' = written \o <<[file |-> name, rows |-> frame]>>
    /\ spc' = next
    /\ UNCHANGED <<raw, df, train, validation, test>>
    /\ OnlyPreprocessing

WriteTrain == to_csv("write_train", "train/train.csv", train, "write_validation")

WriteValidation ==
    to_csv("write_validation", "validation/validation.csv", validation, "write_test")

WriteTest == to_csv("write_test", "test/test.csv", test, "done")

PrepNext ==
    \/ process
    \/ process_KeyError
    \/ split
    \/ WriteTrain
    \/ WriteValidation
    \/ WriteTest

PrepSpecInit == NbIdle /\ PipeIdle /\ DepIdle /\ PrepInit /\ RestIdle

\* One run of the preprocessing script, for every input size and shuffle.
PrepSpec == PrepSpecInit /\ [][PrepNext]_vars

\* ------------------------------------------------------------- process(df)

\* Rows of the frame process(df) is given.
MaxProcessRows == 2

\* The columns of bank-additional-full.csv that process names, with one
\* numeric column more (age, here the number of the row) and the label y.
Columns ==
    <<"age", "job", "pdays", "emp.var.rate", "cons.price.idx", "cons.conf.idx",
      "euribor3m", "nr.employed", "y">>

\* The columns read_csv gives the dtype object: those get_dummies encodes.
ObjectColumns == {"job", "y"}

\* The values an object column may hold, in sorted order.
Sorted(c) ==
    IF c = "job" THEN <<"admin.", "retired", "student", "unemployed">>
    ELSE <<"no", "yes">>

\* What a row holds besides its number and the columns that are dropped.
RowKinds == [job : Range(Sorted("job")), pdays : {3, 999}, y : Range(Sorted("y"))]

\* The frames pd.read_csv may give: n rows, each of any kind.
Frames ==
    {[columns |-> Columns,
      rows |-> [j \in DOMAIN f |->
                  [c \in Range(Columns) |->
                      CASE c = "age" -> j
                        [] c = "job" -> f[j].job
                        [] c = "pdays" -> f[j].pdays
                        [] c = "y" -> f[j].y
                        [] OTHER -> 0]]] :
        f \in UNION {[1..n -> RowKinds] : n \in 0..MaxProcessRows}}

\* .astype(int) of a boolean.
astype_int(b) == IF b THEN 1 ELSE 0

\* df[name] = values: a new column at the end, one value per row.
set_column(fr, name, values) ==
    [columns |-> IF name \in Range(fr.columns) THEN fr.columns ELSE Append(fr.columns, name),
     rows |-> [j \in 1..Len(fr.rows) |->
                 [c \in Range(fr.columns) \cup {name} |->
                     IF c = name THEN values[j] ELSE fr.rows[j][c]]]]

\* df["no_previous_contact"] = ...; df["not_working"] = ...
add_indicators(fr) ==
    set_column(
        set_column(fr, "no_previous_contact",
                   [j \in 1..Len(fr.rows) |-> astype_int(fr.rows[j]["pdays"] = 999)]),
        "not_working",
        [j \in 1..Len(fr.rows) |->
            astype_int(fr.rows[j]["job"] \in {"student", "retired", "unemployed"})])

\* Variant: euribor3m is left in the frame.
toremove_Four == {"emp.var.rate", "cons.price.idx", "cons.conf.idx", "nr.employed"}

toremove == {"emp.var.rate", "cons.price.idx", "cons.conf.idx", "euribor3m", "nr.employed"}

\* df[columns]
select(fr, cols) ==
    [columns |-> cols,
     rows |-> [j \in 1..Len(fr.rows) |-> [c \in Range(cols) |-> fr.rows[j][c]]]]

\* The values of an object column that some row holds, sorted.
categories(fr, c) ==
    SelectSeq(Sorted(c), LAMBDA v : \E j \in 1..Len(fr.rows) : fr.rows[j][c] = v)

\* The indicator columns get_dummies makes: for each object column, in
\* column order, one column <column>_<value> per value present.
RECURSIVE dummy_columns(_, _)
dummy_columns(fr, cols) ==
    IF cols = <<>> THEN <<>>
    ELSE IF Head(cols) \in ObjectColumns
         THEN [q \in 1..Len(categories(fr, Head(cols))) |->
                  [name |-> Head(cols) \o "_" \o categories(fr, Head(cols))[q],
                   of |-> Head(cols),
                   is |-> categories(fr, Head(cols))[q]]]
              \o dummy_columns(fr, Tail(cols))
         ELSE dummy_columns(fr, Tail(cols))

\* pd.get_dummies(df): the other columns first, then the indicator columns.
get_dummies(fr) ==
    LET kept == SelectSeq(fr.columns, LAMBDA c : c \notin ObjectColumns)
        dums == dummy_columns(fr, fr.columns)
        names == kept \o [q \in 1..Len(dums) |-> dums[q].name]
        value(r, c) ==
            IF c \in Range(kept) THEN r[c]
            ELSE LET d == CHOOSE d \in Range(dums) : d.name = c
                 IN astype_int(r[d.of] = d.is)
    IN [columns |-> names,
        rows |-> [j \in 1..Len(fr.rows) |-> [c \in Range(names) |-> value(fr.rows[j], c)]]]

\* df['y_yes'] and df.drop(['y_no', 'y_yes'], axis=1) raise KeyError when
\* one of the labels is not a column.
KeyError(fr) == ~({"y_no", "y_yes"} \subseteq Range(fr.columns))

\* pd.concat([df['y_yes'], df.drop(['y_no', 'y_yes'], axis=1)], axis=1)
label_first(fr) ==
    select(fr, <<"y_yes">> \o SelectSeq(fr.columns, LAMBDA c : c \notin {"y_no", "y_yes"}))

\* The orders of n rows.
Orders(n) == {q \in [1..n -> 1..n] : \A a \in 1..n : \E j \in 1..n : q[j] = a}

\* df.sample(frac=1).reset_index(drop=True), for the order q drawn.
sample(fr, q) == [fr EXCEPT !.rows = [j \in 1..Len(fr.rows) |-> fr.rows[q[j]]]]

\* The frame after the one-hot encoding, before the label is looked up.
encoded(fr) ==
    get_dummies(select(add_indicators(fr),
                       SelectSeq(add_indicators(fr).columns, LAMBDA c : c \notin toremove)))

ProcInit ==
    /\ fpc = "call"
    /\ arg \in Frames
    /\ ret = <<>>

\* process(df) returns; the caller's frame has got the two indicator columns.
ProcessReturns ==
    /\ fpc = "call"
    /\ ~KeyError(encoded(arg))
    /\ \E q \in Orders(Len(arg.rows)) : ret' = sample(label_first(encoded(arg)), q)
    /\ arg' = add_indicators(arg)
    /\ fpc' = "returned"
    /\ OnlyProcess

\* process(df) raises KeyError; the caller's frame has got the two columns.
ProcessRaises ==
    /\ fpc = "call"
    /\ KeyError(encoded(arg))
    /\ arg' = add_indicators(arg)
    /\ fpc' = "raised"
    /\ UNCHANGED ret
    /\ OnlyProcess

ProcNext == ProcessReturns \/ ProcessRaises

ProcSpecInit ==
    NbIdle /\ PipeIdle /\ DepIdle /\ PrepIdle /\ ProcInit /\ CapIdle /\ CleanIdle /\ MonIdle
    /\ ApprovalIdle

\* One call of process(df), for every small frame and every shuffle.
ProcSpec == ProcSpecInit /\ [][ProcNext]_vars

\* --------------------------------------------------- the capture wait cell

\* range(60): the listings the cell makes at most.
CaptureListings == 60

\* Capture files the endpoint writes while the cell waits.
MaxCaptureFiles == 2

\* sorted(...) of a set of file names (here numbers).
RECURSIVE sorted(_)
sorted(S) ==
    IF S = {} THEN <<>>
    ELSE <<CHOOSE x \in S : \A y \in S : x <= y>>
         \o sorted(S \ {CHOOSE x \in S : \A y \in S : x <= y})

\* Variant: the `break` is missing.
AfterListing_NoBreak(files) == "sleep"

\* `if capture_files: break`, else the print and the sleep.
AfterListing(files) == IF files # <<>> THEN "done" ELSE "sleep"

CapInit ==
    /\ wpc = "list"
    /\ listings = 0
    /\ waited = 0
    /\ capture_files = <<>>
    /\ captured = {}

\* The endpoint writes a capture file to the capture location.
CaptureArrives ==
    /\ wpc # "none"
    /\ Cardinality(captured) < MaxCaptureFiles
    /\ captured' = captured \cup {Cardinality(captured) + 1}
    /\ UNCHANGED <<wpc, listings, waited, capture_files>>
    /\ OnlyCapture

\* capture_files = sorted(S3Downloader.list(...)); if capture_files: break
ListCaptures ==
    /\ wpc = "list"
    /\ capture_files' = sorted(captured)
    /\ listings' = listings + 1
    /\ wpc' = AfterListing(sorted(captured))
    /\ UNCHANGED <<waited, captured>>
    /\ OnlyCapture

\* S3Downloader.list raises: the exception leaves the cell.
ListRaises ==
    /\ wpc = "list"
    /\ listings' = listings + 1
    /\ wpc' = "error"
    /\ UNCHANGED <<waited, capture_files, captured>>
    /\ OnlyCapture

\* print("."); time.sleep(1); then the next `_` of range(60), or the end
\* of the loop.
CaptureSleep ==
    /\ wpc = "sleep"
    /\ waited' = waited + 1
    /\ wpc' = IF listings < CaptureListings THEN "list" ELSE "done"
    /\ UNCHANGED <<listings, capture_files, captured>>
    /\ OnlyCapture

CapCell == ListCaptures \/ ListRaises \/ CaptureSleep

CapNext == CapCell \/ CaptureArrives

CapSpecInit ==
    NbIdle /\ PipeIdle /\ DepIdle /\ PrepIdle /\ ProcIdle /\ CapInit /\ CleanIdle /\ MonIdle
    /\ ApprovalIdle

\* The capture wait cell: the listing and the sleep return (or raise),
\* capture files arrive at any moment or never.
CapSpec == CapSpecInit /\ [][CapNext]_vars /\ WF_vars(CapCell)

\* ------------------------------------------------------- the cleanup cells

\* Monitors scheduled to the endpoint when the cleanup starts (the two
\* notebooks share the endpoint and schedule one monitor each).
MaxMonitors == 2

\* A call a cleanup cell made, and the thread or monitor it was made on.
Call(op, x) == <<op, x>>

\* Variant: the body of the loop deletes first and stops afterwards.
loop_body_DeleteFirst == <<"delete", "stop">>

\* Variant: the body of the loop only deletes.
loop_body_NoStop == <<"delete">>

\* The body of `for monitor in model_monitors`, statement by statement.
loop_body == <<"stop", "delete">>

\* The statement that follows statement s of the loop body on monitor j of
\* the list: the next of the body, or the first for the next monitor, or
\* the end of the cell.
AfterStatement(s, j) ==
    IF \E q \in 1..(Len(loop_body) - 1) : loop_body[q] = s
    THEN loop_body[(CHOOSE q \in 1..Len(loop_body) : loop_body[q] = s) + 1]
    ELSE IF j < Len(model_monitors) THEN loop_body[1] ELSE "done"

\* The index of the loop after statement s on monitor j.
AfterIndex(s, j) ==
    IF \E q \in 1..(Len(loop_body) - 1) : loop_body[q] = s THEN j ELSE j + 1

CleanInit ==
    /\ cpc = "terminate"
    /\ workers \in {<<"traffic">>, <<"traffic", "ground_truth">>}
    /\ terminated = {}
    /\ schedules \in {[x \in 1..n |-> "Scheduled"] : n \in 0..MaxMonitors}
    /\ executing \in SUBSET (DOMAIN schedules)
    /\ model_monitors = <<>>
    /\ mi = 0
    /\ calls = <<>>

\* invoke_endpoint_thread.terminate() (and ground_truth_thread.terminate()).
TerminateWorkers ==
    /\ cpc = "terminate"
    /\ terminated' = Range(workers)
    /\ calls' = calls \o [j \in 1..Len(workers) |-> Call("terminate", workers[j])]
    /\ cpc' = "list"
    /\ UNCHANGED <<workers, schedules, executing, model_monitors, mi>>
    /\ OnlyCleanup

\* model_monitors = predictor.list_monitors(): the monitors the endpoint
\* still has, and the first `for monitor in model_monitors`.
ListMonitors ==
    /\ cpc = "list"
    /\ model_monitors' = SelectSeq([x \in DOMAIN schedules |-> x],
                                   LAMBDA x : schedules[x] # "Deleted")
    /\ mi' = 1
    /\ cpc' = IF model_monitors' = <<>> THEN "done" ELSE loop_body[1]
    /\ calls' = Append(calls, Call("list_monitors", 0))
    /\ UNCHANGED <<workers, terminated, schedules, executing>>
    /\ OnlyCleanup

\* monitor.stop_monitoring_schedule(); on a schedule that is gone the call
\* raises.
StopMonitoringSchedule ==
    /\ cpc = "stop"
    /\ IF schedules[model_monitors[mi]] = "Deleted"
       THEN /\ cpc' = "error"
            /\ calls' = Append(calls, Call("stop_failed", model_monitors[mi]))
            /\ UNCHANGED <<schedules, mi>>
       ELSE /\ schedules' = [schedules EXCEPT ![model_monitors[mi]] = "Stopped"]
            /\ calls' = Append(calls, Call("stop", model_monitors[mi]))
            /\ cpc' = AfterStatement("stop", mi)
            /\ mi' = AfterIndex("stop", mi)
    /\ UNCHANGED <<workers, terminated, executing, model_monitors>>
    /\ OnlyCleanup

\* monitor.delete_monitoring_schedule(); with an execution in progress the
\* call raises ValidationException, which leaves the cell.
DeleteMonitoringSchedule ==
    /\ cpc = "delete"
    /\ IF model_monitors[mi] \in executing
       THEN /\ cpc' = "error"
            /\ calls' = Append(calls, Call("delete_failed", model_monitors[mi]))
            /\ UNCHANGED <<schedules, mi>>
       ELSE /\ schedules' = [schedules EXCEPT ![model_monitors[mi]] = "Deleted"]
            /\ calls' = Append(calls, Call("delete", model_monitors[mi]))
            /\ cpc' = AfterStatement("delete", mi)
            /\ mi' = AfterIndex("delete", mi)
    /\ UNCHANGED <<workers, terminated, executing, model_monitors>>
    /\ OnlyCleanup

\* The user runs the cell of the loop again; the call notes how many
\* executions are in progress at that moment.
RunCellAgain ==
    /\ cpc = "error"
    /\ cpc' = "list"
    /\ calls' = <<Call("again", Cardinality(executing))>>
    /\ UNCHANGED <<workers, terminated, schedules, executing, model_monitors, mi>>
    /\ OnlyCleanup

\* The hourly schedule of a monitor that is still scheduled starts an
\* execution.
StartExecution(x) ==
    /\ cpc \notin {"none", "terminate"}
    /\ schedules[x] = "Scheduled"
    /\ x \notin executing
    /\ executing' = executing \cup {x}
    /\ UNCHANGED <<cpc, workers, terminated, schedules, model_monitors, mi, calls>>
    /\ OnlyCleanup

\* A monitoring execution ends.
FinishExecution(x) ==
    /\ x \in executing
    /\ executing' = executing \ {x}
    /\ UNCHANGED <<cpc, workers, terminated, schedules, model_monitors, mi, calls>>
    /\ OnlyCleanup

CleanCell ==
    \/ TerminateWorkers
    \/ ListMonitors
    \/ StopMonitoringSchedule
    \/ DeleteMonitoringSchedule

CleanNext ==
    \/ CleanCell
    \/ RunCellAgain
    \/ \E x \in DOMAIN schedules : StartExecution(x)
    \/ \E x \in DOMAIN schedules : FinishExecution(x)

CleanSpecInit ==
    NbIdle /\ PipeIdle /\ DepIdle /\ PrepIdle /\ ProcIdle /\ CapIdle /\ CleanInit /\ MonIdle
    /\ ApprovalIdle

\* The cleanup cells, against an endpoint with up to MaxMonitors monitors
\* whose executions start and end on their own.
CleanSpec == CleanSpecInit /\ [][CleanNext]_vars

\* The calls of a cell return, every execution ends, and the user runs the
\* failed cell again.
CleanFairSpec ==
    /\ CleanSpec
    /\ WF_vars(CleanCell)
    /\ WF_vars(RunCellAgain)
    /\ \A x \in 1..MaxMonitors : WF_vars(FinishExecution(x))

\* --------------------------------------- mlops-roadshow/3-deployment.ipynb

\* The model packages of the registry the notebook may have been handed.
MaxPackages == 2

\* The seconds time.strftime can show while the notebook runs.
MaxClock == 2

\* f'{model_name}-endpoint-' + time.strftime('%Y-%m-%d-%H-%M-%S')
EndpointNameAt(t) == "model-endpoint-" \o str(t)

\* Variant: the deploy cell comes before the approval cell.
DeploymentCells_DeployFirst ==
    <<"model_package", "deploy", "approve", "query", "predictor", "done">>

\* The code cells of the SageMaker Endpoint section, in notebook order.
DeploymentCells ==
    <<"model_package", "approve", "deploy", "query", "predictor", "done">>

AfterCell(c) ==
    DeploymentCells[(CHOOSE j \in 1..Len(DeploymentCells) : DeploymentCells[j] = c) + 1]

\* %store -r gave model_package_arn; the registry holds the package, pending
\* approval or approved already.
ApprovalInit ==
    /\ apc = "model_package"
    /\ aruns = 1
    /\ model_package_arn \in 1..MaxPackages
    /\ registry \in [1..MaxPackages -> {"PendingApproval", "Approved"}]
    /\ model_package = 0
    /\ approved = {}
    /\ clock = 0
    /\ endpoint_name = "unset"
    /\ deployments = <<>>
    /\ predictor = "unset"

\* random_forest_regressor_model = ModelPackage(role_arn,
\* model_package_arn=model_package_arn, name=model_name)
ModelPackageCell ==
    /\ apc = "model_package"
    /\ model_package' = model_package_arn
    /\ apc' = AfterCell(apc)
    /\ UNCHANGED <<aruns, model_package_arn, registry, approved, clock, endpoint_name,
                   deployments, predictor>>
    /\ OnlyApproval

\* sagemaker_client.update_model_package(
\* ModelPackageArn=random_forest_regressor_model.model_package_arn,
\* ModelApprovalStatus='Approved') returns.
UpdateModelPackage ==
    /\ apc = "approve"
    /\ registry' = [registry EXCEPT ![model_package] = "Approved"]
    /\ approved' = approved \cup {model_package}
    /\ apc' = AfterCell(apc)
    /\ UNCHANGED <<aruns, model_package_arn, model_package, clock, endpoint_name,
                   deployments, predictor>>
    /\ OnlyApproval

\* endpoint_name = ... time.strftime(...), and
\* random_forest_regressor_model.deploy(..., endpoint_name=endpoint_name)
\* returns: an endpoint of that name serves the package. An endpoint of that
\* name existing already, or any other failure, makes deploy raise with
\* endpoint_name assigned.
Deploy ==
    /\ apc = "deploy"
    /\ endpoint_name' = EndpointNameAt(clock)
    /\ \/ /\ \A q \in DOMAIN deployments :
                deployments[q].endpoint_name # EndpointNameAt(clock)
          /\ deployments' = Append(deployments,
                               [package |-> model_package,
                                endpoint_name |-> EndpointNameAt(clock),
                                run |-> aruns])
          /\ apc' = AfterCell(apc)
       \/ /\ apc' = "error"
          /\ UNCHANGED deployments
    /\ UNCHANGED <<aruns, model_package_arn, registry, model_package, approved, clock,
                   predictor>>
    /\ OnlyApproval

\* The Athena query of the test set: query.run, query.wait, as_dataframe.
QueryCell ==
    /\ apc = "query"
    /\ apc' = AfterCell(apc)
    /\ UNCHANGED <<aruns, model_package_arn, registry, model_package, approved, clock,
                   endpoint_name, deployments, predictor>>
    /\ OnlyApproval

\* predictor = Predictor(endpoint_name=endpoint_name, ...), and
\* predictor.predict(...)
AttachPredictor ==
    /\ apc = "predictor"
    /\ predictor' = endpoint_name
    /\ apc' = AfterCell(apc)
    /\ UNCHANGED <<aruns, model_package_arn, registry, model_package, approved, clock,
                   endpoint_name, deployments>>
    /\ OnlyApproval

\* update_model_package or the query raises: the cell fails, the run stops.
ApprovalRaises ==
    /\ apc \in {"approve", "query"}
    /\ apc' = "error"
    /\ UNCHANGED <<aruns, model_package_arn, registry, model_package, approved, clock,
                   endpoint_name, deployments, predictor>>
    /\ OnlyApproval

\* The wall clock moves on by a second.
ClockTick ==
    /\ clock < MaxClock
    /\ clock' = clock + 1
    /\ UNCHANGED <<apc, aruns, model_package_arn, registry, model_package, approved,
                   endpoint_name, deployments, predictor>>
    /\ OnlyApproval

\* The user runs the section again, from its first cell, in the same kernel.
RunSectionAgain ==
    /\ apc \in {"error", "done"}
    /\ aruns < MaxRuns
    /\ aruns' = aruns + 1
    /\ apc' = "model_package"
    /\ UNCHANGED <<model_package_arn, registry, model_package, approved, clock,
                   endpoint_name, deployments, predictor>>
    /\ OnlyApproval

ApprovalNext ==
    \/ ModelPackageCell
    \/ UpdateModelPackage
    \/ Deploy
    \/ QueryCell
    \/ AttachPredictor
    \/ ApprovalRaises
    \/ ClockTick
    \/ RunSectionAgain

ApprovalSpecInit ==
    NbIdle /\ PipeIdle /\ DepIdle /\ PrepIdle /\ ProcIdle /\ CapIdle /\ CleanIdle /\ MonIdle
    /\ ApprovalInit

\* The SageMaker Endpoint section of the notebook, its cells run in order.
ApprovalSpec == ApprovalSpecInit /\ [][ApprovalNext]_vars

\* ------------------------------------------------- accesses to shared state

Actors == {"main"} \cup Threads

TerminateEvents == {"terminate_event:traffic", "terminate_event:ground_truth"}

Running(a) == IF a = "main" THEN mpc \notin {"done", "error"} ELSE alive[a] = "running"

\* Where an actor is: the cell of the main thread, the statement of a thread.
Position(a) ==
    IF a = "main"
    THEN IF mpc = "upload_ground_truth" THEN "upload:" \o upl["main"].phase ELSE mpc
    ELSE IF a = "ground_truth" /\ tpc[a] = "upload" THEN "upload:" \o upl[a].phase
    ELSE tpc[a]

\* The in-process state the statement an actor is at writes.
Writes(a) ==
    IF ~Running(a) THEN {}
    ELSE CASE Position(a) = "setup" -> {"endpoint_name", "sagemaker_runtime_client"}
           [] Position(a) \in {"upload:seed", "upload:random"} -> {"random"}
           [] Position(a) = "start_traffic" -> {"invoke_endpoint_thread"}
           [] Position(a) = "start_ground_truth" -> {"ground_truth_thread"}
           [] Position(a) = "terminate_traffic" -> {"terminate_event:traffic"}
           [] Position(a) = "terminate_ground_truth" -> {"terminate_event:ground_truth"}
           [] OTHER -> {}

\* The in-process state the statement an actor is at reads.
Reads(a) ==
    IF ~Running(a) THEN {}
    ELSE CASE Position(a) = "call" -> {"endpoint_name", "sagemaker_runtime_client"}
           [] Position(a) = "upload:random" -> {"random"}
           [] Position(a) \in {"run", "check"} /\ a \in Threads -> {"terminate_event:" \o a}
           [] Position(a) = "terminate_traffic" -> {"invoke_endpoint_thread"}
           [] Position(a) = "terminate_ground_truth" -> {"ground_truth_thread"}
           [] OTHER -> {}

\* ------------------------------------------------------------------ claims

AliveThreads == {t \in Threads : alive[t] = "running"}

\* C1: once terminate() has been called on a started WorkerThread, its run()
\* eventually returns, for the traffic thread and for the ground-truth
\* thread, wherever the thread is in its loop when the event is set.
C1_CooperativeCancellation ==
    \A t \in Threads : (alive[t] = "running" /\ flag[t]) ~> (alive[t] = "ended")

\* Both threads have ended by returning from run() after terminate().
C1_Witness ==
    \A t \in Threads : alive[t] = "ended" /\ flag[t] /\ ~raised[t]

\* C2: as long as terminate() has not been called, the traffic thread has
\* not ended, also when a remote call raises.
C2_RunsUntilTerminated ==
    alive["traffic"] = "ended" => flag["traffic"]

\* What one pass does at its j-th step: call, read, sleep, check, line by line.
PassStep(j) == Event(<<"call", "read", "sleep", "check">>[((j - 1) % 4) + 1], (j - 1) \div 4)

C4_AtMostOneThread == Cardinality(AliveThreads) <= 1

\* C4, amended: at most one WorkerThread per do_run callback is alive; the
\* data-quality notebook has at most one (traffic), the model-quality
\* notebook at most two (traffic and ground truth), and the ground-truth
\* thread exists only there, from its start cell on.
C4_AtMostOnePerCallback ==
    /\ nb = "data_quality" => Cardinality(AliveThreads) <= 1
    /\ Cardinality(AliveThreads) <= 2
    /\ alive["ground_truth"] # "unstarted" =>
          /\ nb = "model_quality"
          /\ mpc \notin {"setup", "start_traffic", "upload_ground_truth", "start_ground_truth"}
    /\ alive["traffic"] # "unstarted" => mpc \notin {"setup", "start_traffic"}

\* Both threads of the model-quality notebook are alive together.
C4_Witness == nb = "model_quality" /\ AliveThreads = Threads

C6_FailuresSurface ==
    \A c \in caught : c.reported = c.cause

\* C7: in WorkshopPipeline the registration step runs only when the reported
\* accuracy is strictly greater than 0.8.
C7_RegisteredOnlyAboveThreshold ==
    (pipeline = "WorkshopPipeline" /\ status["register"] # "pending")
        => Less(Threshold(pipeline), report)

\* C8: in the synthetic-housing pipeline the registration step runs exactly
\* when the reported MSE is less than 80000000.0: it runs only then, and an
\* execution whose condition step has evaluated a smaller MSE goes on to it.
C8_RegisteredIffBelowThreshold ==
    pipeline = "synthetic-housing-training-pipeline" =>
        /\ status["register"] # "pending" => Less(report, Threshold(pipeline))
        /\ (status["cond"] = "succeeded" /\ Less(report, Threshold(pipeline)))
              => outcome = "true"

\* C9: whatever the order of the steps list, preprocessing has succeeded
\* before training starts, training before the evaluation starts, the
\* evaluation before the condition is evaluated, and the condition before
\* the registration starts.
C9_DependencyOrder ==
    /\ status["train"] # "pending" => status["process"] = "succeeded"
    /\ status["eval"] # "pending" => status["train"] = "succeeded"
    /\ status["cond"] # "pending" => status["eval"] = "succeeded"
    /\ status["register"] # "pending" => status["cond"] = "succeeded"

\* The registration has run in an execution whose steps list is the reverse
\* of the execution order.
C9_Witness ==
    /\ steps = <<"cond", "eval", "train", "process">>
    /\ status["register"] = "succeeded"

\* C10: the script cuts the shuffled frame of n rows at int(0.7n) and
\* int(0.85n): the three parts are disjoint, together hold every row once,
\* keep the shuffled order, and are what is written to train.csv,
\* validation.csv and test.csv.
C10_SplitPartitions ==
    spc \in {"write_train", "write_validation", "write_test", "done"} =>
        /\ train \o validation \o test = df
        /\ Len(train) = Int07(Len(df))
        /\ Len(train) + Len(validation) = Int085(Len(df))
        /\ Range(train) \cap Range(validation) = {}
        /\ Range(train) \cap Range(test) = {}
        /\ Range(validation) \cap Range(test) = {}
        /\ Range(train) \cup Range(validation) \cup Range(test) = Range(raw)
        /\ spc = "done" =>
              written = <<[file |-> "train/train.csv", rows |-> train],
                          [file |-> "validation/validation.csv", rows |-> validation],
                          [file |-> "test/test.csv", rows |-> test]>>

\* A shuffled frame has been split into three non-empty parts and written.
C10_Witness ==
    /\ spc = "done"
    /\ df # raw
    /\ train # <<>>
    /\ validation # <<>>
    /\ test # <<>>

\* The labels the rows of the frame given to process hold.
Labels == {arg.rows[j]["y"] : j \in 1..Len(arg.rows)}

\* What process makes of one row: the row's number and pdays are kept, the
\* label and the two indicators are 0/1 as defined, every job column holds
\* 1 exactly for that job.
Transformed(in, out) ==
    /\ out["age"] = in["age"]
    /\ out["pdays"] = in["pdays"]
    /\ out["y_yes"] = astype_int(in["y"] = "yes")
    /\ out["no_previous_contact"] = astype_int(in["pdays"] = 999)
    /\ out["not_working"] = astype_int(in["job"] \in {"student", "retired", "unemployed"})
    /\ \A v \in Range(Sorted("job")) :
          ("job_" \o v) \in DOMAIN out => out["job_" \o v] = astype_int(in["job"] = v)

\* The frame process returned is the one the claim describes.
ReturnedFrame ==
    /\ Len(ret.rows) = Len(arg.rows)
    /\ \E q \in Orders(Len(arg.rows)) :
          \A j \in 1..Len(arg.rows) : Transformed(arg.rows[q[j]], ret.rows[j])
    /\ ret.columns[1] = "y_yes"
    /\ Range(ret.columns) \cap {"y_no", "y", "job", "emp.var.rate", "cons.price.idx",
                              "cons.conf.idx", "euribor3m", "nr.employed"} = {}
    /\ {"no_previous_contact", "not_working"} \subseteq Range(ret.columns)
    /\ \A j \in 1..Len(ret.rows) : DOMAIN ret.rows[j] = Range(ret.columns)

\* C11 as stated: process(df) returns, and returns the frame described,
\* whatever frame it is given.
C11_AlwaysReturnsFrame ==
    fpc # "call" => (fpc = "returned" /\ ReturnedFrame)

\* C11, amended: given a frame that holds both labels, process returns a
\* frame of as many rows, a permutation of the transformed rows, with y_yes
\* first, without y_no and the five dropped columns, and with the two 0/1
\* indicators; given a frame that lacks a label (an empty one too) it raises
\* KeyError and returns nothing.
C11_ProcessedFrame ==
    /\ fpc = "returned" => (Labels = {"no", "yes"} /\ ReturnedFrame)
    /\ fpc = "raised" => (Labels # {"no", "yes"} /\ ret = <<>>)

\* A frame of two rows has come back shuffled, with both indicators set in
\* one of its rows.
C11_Witness ==
    /\ fpc = "returned"
    /\ Len(ret.rows) = MaxProcessRows
    /\ ret.rows[1]["age"] = MaxProcessRows
    /\ \E j \in 1..Len(ret.rows) :
          ret.rows[j]["no_previous_contact"] = 1 /\ ret.rows[j]["not_working"] = 1

\* The line of a ground-truth record in the format of the merge container.
MergeLine(data, eventId) ==
    "{\"groundTruthData\": {\"data\": \"" \o data
    \o "\", \"encoding\": \"CSV\"}, \"eventMetadata\": {\"eventId\": \"" \o eventId
    \o "\"}, \"eventVersion\": \"0\"}"

\* C12: every record ground_truth_with_id returns, and every line uploaded,
\* has the merge container's format: data "1" or "0", encoding "CSV",
\* eventId str(i), eventVersion "0"; an upload holds one line per i of
\* range(180), in increasing order of i, none twice.
C12_GroundTruthFormat ==
    /\ \A c \in Callers : \A j \in 1..Len(upl[c].records) :
          /\ DOMAIN upl[c].records[j] = {"groundTruthData", "eventMetadata", "eventVersion"}
          /\ upl[c].records[j].groundTruthData.data \in {"0", "1"}
          /\ upl[c].records[j].groundTruthData.encoding = "CSV"
          /\ upl[c].records[j].eventMetadata.eventId = str(j - 1)
          /\ upl[c].records[j].eventVersion = "0"
    /\ \A c \in Callers : s3[c] # <<>> =>
          /\ Len(s3[c]) = GroundTruthRecords
          /\ \A j \in 1..Len(s3[c]) : \E d \in {"0", "1"} : s3[c][j] = MergeLine(d, str(j - 1))
          /\ \A a \in 1..Len(s3[c]) : \A b \in 1..Len(s3[c]) : a # b => s3[c][a] # s3[c][b]

\* The cell and the ground-truth thread have each uploaded a whole object.
C12_Witness ==
    /\ s3["main"] # <<>>
    /\ s3["ground_truth"] # <<>>
    /\ upl["ground_truth"].phase = "idle"

\* C13: within a pass no two requests carry the same InferenceId, and the
\* request of the k-th line (from 0) carries str(k), in every pass.
C13_UniqueInferenceId ==
    /\ \A a \in 1..Len(ids) : \A b \in 1..Len(ids) : a # b => ids[a] # ids[b]
    /\ \A j \in 1..Len(ids) : ids[j] = str(j - 1)
    /\ Len(ids) = Cardinality({j \in 1..Len(log) : log[j][1] = "call"})
    /\ (log # <<>> /\ sent # <<>>) => sent[1].InferenceId = str(sent[1].Body)

\* A pass over several lines has ended and WorkerThread.run has started the
\* next one: the counter is back at 0 while the last request sent is that
\* of the last line.
C13_Witness ==
    /\ nrows >= 2
    /\ tpc["traffic"] = "call"
    /\ ids = <<>>
    /\ i = 0
    /\ sent # <<>>
    /\ sent[1].InferenceId = str(nrows - 1)

\* The eventIds of the lines of an upload.
HasEventId(lines, id) ==
    \E q \in 1..Len(lines) : \E d \in {"0", "1"} : lines[q] = MergeLine(d, id)

\* C14: when the sample file has as many lines as an upload has records
\* (180 and 180), every InferenceId sent has a ground-truth line of that
\* eventId in every upload, and the eventIds of an upload are the
\* InferenceIds of one full pass.
C14_GroundTruthMatchesTraffic ==
    nrows = GroundTruthRecords =>
        \A c \in Callers : s3[c] # <<>> =>
            /\ \A j \in 1..Len(ids) : HasEventId(s3[c], ids[j])
            /\ sent # <<>> => HasEventId(s3[c], sent[1].InferenceId)
            /\ Len(ids) = nrows =>
                  \A q \in 1..Len(s3[c]) : \E j \in 1..Len(ids) : \E d \in {"0", "1"} :
                      s3[c][q] = MergeLine(d, ids[j])

\* A full pass has been sent while both uploads are in the bucket.
C14_Witness ==
    /\ nrows = GroundTruthRecords
    /\ Len(ids) = nrows
    /\ nrows >= 2
    /\ s3["main"] # <<>>
    /\ s3["ground_truth"] # <<>>

C16_HourlyUploads ==
    /\ tpc["ground_truth"] = "sleep" => (k < SleepsPerUpload /\ naps = k)
    /\ tpc["ground_truth"] = "check" => (k < SleepsPerUpload /\ naps = k + 1)
    /\ (tpc["ground_truth"] = "upload" /\ s3["ground_truth"] # <<>>) => naps = SleepsPerUpload
    /\ alive["ground_truth"] = "ended" => flag["ground_truth"]

\* The calls of the loop made in this run of the cell, in order.
LoopCalls ==
    SelectSeq(calls, LAMBDA c : c[1] \in {"stop", "stop_failed", "delete", "delete_failed"})

\* C17: terminate() has been called on every worker thread before the
\* monitors are listed; the loop calls stop and then delete on each listed
\* monitor, in list order, so that no delete comes before the stop of the
\* same monitor; and when the cell has completed every listed monitor has
\* been stopped and deleted.
C17_StopThenDelete ==
    /\ cpc \notin {"none", "terminate"} => terminated = Range(workers)
    /\ \A j \in 1..Len(calls) : \A q \in 1..Len(calls) :
          (calls[j][1] = "terminate" /\ q < j) => calls[q][1] = "terminate"
    /\ \A j \in 1..Len(LoopCalls) :
          /\ LoopCalls[j][2] = model_monitors[(j + 1) \div 2]
          /\ j % 2 = 1 => LoopCalls[j][1] = "stop"
          /\ j % 2 = 0 => LoopCalls[j][1] \in {"delete", "delete_failed"}
    /\ cpc = "done" =>
          /\ Len(LoopCalls) = 2 * Len(model_monitors)
          /\ \A j \in 1..Len(model_monitors) : schedules[model_monitors[j]] = "Deleted"

\* The cells have completed at the first run for an endpoint with several
\* monitors and a notebook with both worker threads.
C17_Witness ==
    /\ cpc = "done"
    /\ Len(model_monitors) = MaxMonitors
    /\ MaxMonitors >= 2
    /\ terminated = {"traffic", "ground_truth"}
    /\ calls[1] = Call("terminate", "traffic")

\* C18 as stated (its part about one run): a failed delete leaves its
\* monitor stopped and not deleted and the later monitors of the list
\* untouched, and a run of the cell begun when no execution is in progress
\* does not fail.
C18_RerunDeletesAllRemaining ==
    /\ cpc = "error" =>
          /\ calls[Len(calls)] = Call("delete_failed", model_monitors[mi])
          /\ schedules[model_monitors[mi]] = "Stopped"
          /\ \A j \in (mi + 1)..Len(model_monitors) : \A q \in 1..Len(LoopCalls) :
                LoopCalls[q][2] # model_monitors[j]
    /\ (calls # <<>> /\ calls[1][1] = "again" /\ calls[1][2] = 0) => cpc # "error"

\* C18, amended: a failed delete leaves its monitor stopped and not deleted
\* and the later monitors of the list untouched; a run of the cell begun
\* when no execution is in progress deletes at least the monitor the run
\* before failed at, and fails again only at a later monitor (one that was
\* still scheduled and has started an execution since); and with the cell
\* run again after every failure, eventually no monitor is left.
C18_RerunsEventuallyDeleteAll ==
    /\ [](cpc = "error" =>
            /\ calls[Len(calls)] = Call("delete_failed", model_monitors[mi])
            /\ schedules[model_monitors[mi]] = "Stopped"
            /\ \A j \in (mi + 1)..Len(model_monitors) : \A q \in 1..Len(LoopCalls) :
                  LoopCalls[q][2] # model_monitors[j])
    /\ []((calls # <<>> /\ calls[1][1] = "again" /\ calls[1][2] = 0 /\ cpc = "error") => mi > 1)
    /\ <>[](\A x \in DOMAIN schedules : schedules[x] = "Deleted")

\* The cell has completed in a run that followed a failed one, and no
\* monitor is left.
C18_Witness ==
    /\ cpc = "done"
    /\ calls[1][1] = "again"
    /\ DOMAIN schedules = 1..MaxMonitors
    /\ \A x \in DOMAIN schedules : schedules[x] = "Deleted"

\* C19: the cell lists at most 60 times and sleeps one second after each
\* empty listing, so at most 60 seconds in all; it stops at the first
\* listing that is not empty, without another sleep; and it always ends,
\* whether a capture file arrives or not.
C19_CaptureWaitBounded ==
    /\ [](/\ listings <= CaptureListings
          /\ waited <= CaptureListings
          /\ wpc = "list" => (waited = listings /\ capture_files = <<>>)
          /\ wpc = "sleep" => (waited = listings - 1 /\ capture_files = <<>>)
          /\ (wpc = "done" /\ capture_files # <<>>) => waited = listings - 1
          /\ (wpc = "done" /\ capture_files = <<>>) =>
                (listings = CaptureListings /\ waited = CaptureListings))
    /\ <>(wpc \in {"done", "error"})

\* The cell has found capture files at a listing that was neither the first
\* nor the last.
C19_Witness ==
    /\ wpc = "done"
    /\ capture_files # <<>>
    /\ listings > 1
    /\ listings < CaptureListings

\* C20: predict() is called only after a describe_endpoint call for the
\* endpoint the Predictor is attached to has returned 'InService'; the first
\* describe_endpoint call of the loop is made without a sleep and every
\* later one after one more sleep of 120 seconds.
C20_QueriedOnceInService ==
    /\ predicted =>
          /\ response_status = "InService"
          /\ polls >= 1
          /\ PredictorEndpoint = DescribedEndpoint
    /\ dpc = "describe" => sleeps = polls
    /\ (dpc \in {"wait", "done"} /\ polls >= 1) => sleeps = polls - 1
    /\ (dpc = "wait" /\ polls = 0) => (sleeps = 0 /\ response_status = "None")

\* The endpoint has been queried after a wait of several describe_endpoint
\* calls.
C20_Witness ==
    /\ predicted
    /\ polls >= 2
    /\ sleeps = polls - 1

\* The run took the already-exists branch of create_lambda_iam_role.
TookExistsBranch == \E c \in caught : c.call = "create_role"

\* C23: create_lambda_iam_role does not recover from a partial failure. An
\* attach_role_policy that raises leaves the cell with the role created and
\* the policy of the failed call missing; a call that finds the role goes to
\* get_role (or raises) and attaches nothing, so the policies of the role
\* stay as they are for the rest of the run.
C23_NoRecoveryFromPartialFailure ==
    /\ [](/\ (dpc = "error" /\ error = "attach_basic") =>
                (iam.role /\ "AWSLambdaBasicExecutionRole" \notin iam.policies)
          /\ (dpc = "error" /\ error = "attach_full") =>
                (iam.role /\ "AmazonSageMakerFullAccess" \notin iam.policies)
          /\ (dpc \in {"attach_basic", "attach_full"}) => ~TookExistsBranch)
    /\ [][(dpc = "create_role" /\ iam.role) =>
              (dpc' \in {"get_role", "error"} /\ iam' = iam)]_vars
    /\ [][TookExistsBranch => iam' = iam]_vars

\* After an attach_role_policy raised in an earlier run, a later run got the
\* role's ARN from the already-exists branch while a policy is still missing.
C23_Witness ==
    /\ runs >= 2
    /\ TookExistsBranch
    /\ lambda_role = "arn"
    /\ iam.role
    /\ iam.policies # Policies

\* C21: the monitoring set-up keeps the order monitor object, baseline job,
\* schedule. A monitoring schedule exists only after the wait() of the
\* baseline job returned, its constraints are those of the job that
\* suggest_baseline started and that job completed, and the traffic thread
\* was started before.
C21_BaselineBeforeSchedule ==
    /\ monitoring_schedule # <<>> =>
          /\ qpc = "done"
          /\ monitoring_schedule[1].constraints = latest_baselining_job
          /\ latest_baselining_job \in DOMAIN baseline_jobs
          /\ baseline_jobs[latest_baselining_job] = "Completed"
          /\ alive["traffic"] # "unstarted"
    /\ (mpc = "monitoring" /\ qpc \in {"latest_job", "create_monitoring_schedule"}) =>
          /\ baseline_jobs[latest_baselining_job] = "Completed"
          /\ alive["traffic"] # "unstarted"
    /\ qpc \in {"init_monitor", "suggest_baseline"} => baseline_jobs = <<>>

\* The schedule was created with the constraints of the completed job.
C21_Witness ==
    /\ monitoring_schedule # <<>>
    /\ baseline_jobs[monitoring_schedule[1].constraints] = "Completed"
    /\ mpc = "terminate_traffic"

\* C22: the model package is deployed only after its approval. Every
\* deploy() that returned was called on the package of model_package_arn
\* after update_model_package(ModelApprovalStatus='Approved') returned for
\* that package in the same run, and the Predictor is attached to the
\* endpoint name passed to the latest deploy().
C22_ApprovedBeforeDeploy ==
    /\ \A q \in DOMAIN deployments :
          /\ deployments[q].package = model_package_arn
          /\ deployments[q].package \in approved
    /\ apc \in {"deploy", "query", "predictor"} => model_package \in approved
    /\ predictor # "unset" =>
          /\ deployments # <<>>
          /\ \E q \in DOMAIN deployments : deployments[q].endpoint_name = predictor
    /\ apc = "done" =>
          /\ predictor = endpoint_name
          /\ predictor = deployments[Len(deployments)].endpoint_name
          /\ deployments[Len(deployments)].run = aruns

\* A package that was pending approval has been approved and deployed, and
\* the Predictor is attached to its endpoint, at a later second than the
\* notebook started.
C22_Witness ==
    /\ apc = "done"
    /\ deployments # <<>>
    /\ predictor = EndpointNameAt(1)
    /\ model_package_arn \in approved

====
